---- MODULE Spec2Model ----
(***************************************************************************)
(* Model of homework.py: the fitness-tracker module with the classes       *)
(* InfoMessage, Training, Running, SportsWalking, Swimming and the         *)
(* functions read_package and main.                                        *)
(*                                                                         *)
(* Numbers.  Every Python number (int or float) is modelled as an exact    *)
(* rational [n |-> numerator, d |-> denominator], d > 0, in lowest terms.  *)
(* The arithmetic operators are the exact ones; the rounding of IEEE-754   *)
(* doubles (an error of a few ulp) is not modelled.  The operators are     *)
(* functions, so that TLC evaluates their arguments once.                  *)
(*                                                                         *)
(* Exceptions.  A call returns a record: Return(v) when it returns v,      *)
(* Raise(e) when exception e leaves it.                                    *)
(*                                                                         *)
(* Strings.  The Russian texts of the source are written in Latin letters. *)
(***************************************************************************)
EXTENDS Integers, Sequences, FiniteSets, TLC

VARIABLES
    name,       \* __name__: "__main__" (run as a script) or "homework" (imported)
    pc,         \* position of the script's for loop; "imported" for a caller
    idx,        \* index of the next entry of packages in the for loop
    package,    \* the workout_type and data of the latest read_package call
    training,   \* the workout object (global `training`), or None
    info,       \* the latest InfoMessage returned by show_training_info, or None
    ret,        \* outcome (Return or Raise) of the latest call
    stdout,     \* the lines printed so far
    shown,      \* every InfoMessage show_training_info returned for `training`
    history     \* the names of the calls made so far, in order

vars == <<name, pc, idx, package, training, info, ret, stdout, shown, history>>

-----------------------------------------------------------------------------
(* Bounds of the model *)

\* A caller that imports the module makes at most MaxCalls calls.
MaxCalls == 4

-----------------------------------------------------------------------------
(* Exact rational arithmetic *)

\* Euclid's algorithm, for a >= 0 and b >= 0
GCD[a \in Nat, b \in Nat] == IF b = 0 THEN a ELSE GCD[b, a % b]

Abs(a) == IF a < 0 THEN -a ELSE a

\* n/d in lowest terms, for d > 0
Rat[n \in Int, d \in Nat] ==
    [n |-> n \div GCD[Abs(n), d], d |-> d \div GCD[Abs(n), d]]

Num(k) == [n |-> k, d |-> 1]

\* The numbers of the model
Number == [n : Int, d : Nat]

\* The common factors are divided out before the products are formed, so
\* that no intermediate value is larger than the result needs
Add[x \in Number, y \in Number] ==
    LET g == GCD[x.d, y.d]
    IN  Rat[x.n * (y.d \div g) + y.n * (x.d \div g), (x.d \div g) * y.d]

Neg(x) == [n |-> -x.n, d |-> x.d]

Sub[x \in Number, y \in Number] == Add[x, Neg(y)]

Mul[x \in Number, y \in Number] ==
    LET g1 == GCD[Abs(x.n), y.d]
        g2 == GCD[Abs(y.n), x.d]
    IN  Rat[(x.n \div g1) * (y.n \div g2), (x.d \div g2) * (y.d \div g1)]

\* 1 / y for y # 0
Inverse(y) == IF y.n > 0 THEN [n |-> y.d, d |-> y.n] ELSE [n |-> -y.d, d |-> -y.n]

\* x / y for y # 0
Quot[x \in Number, y \in Number] == Mul[x, Inverse(y)]

\* floor(x) as an integer (TLC's \div rounds towards minus infinity)
Floor(x) == x.n \div x.d

Less(x, y) == x.n * y.d < y.n * x.d

-----------------------------------------------------------------------------
(* Outcomes of calls *)

None == [cls |-> "NoneType"]

Return(v) == [exc |-> "None", val |-> v]

Raise(e) == [exc |-> e]

Returned(r) == r.exc = "None"

\* Evaluate r and then Op on its value: an exception raised by r leaves the
\* enclosing call at once
Then(r, Op(_)) == IF Returned(r) THEN Op(r.val) ELSE r

\* Python's x / y
TrueDiv(x, y) == IF y.n = 0 THEN Raise("ZeroDivisionError") ELSE Return(Quot[x, y])

\* Python's x // y
FloorDiv(x, y) == IF y.n = 0 THEN Raise("ZeroDivisionError")
                             ELSE Return(Num(Floor(Quot[x, y])))

-----------------------------------------------------------------------------
(* class InfoMessage *)

InfoMessage(training_type, duration, distance, speed, calories) ==
    [cls |-> "InfoMessage", training_type |-> training_type, duration |-> duration,
     distance |-> distance, speed |-> speed, calories |-> calories]

\* The integer nearest to f + r, for an integer f and 0 <= r < 1 (ties to even)
RoundFrom(f, r) ==
    IF Less(Rat[1, 2], r) \/ (r = Rat[1, 2] /\ f % 2 = 1) THEN f + 1 ELSE f

RoundHalfEven(t) == RoundFrom(Floor(t), Sub[t, Num(Floor(t))])

\* format(x, '.3f'): x rounded to the nearest thousandth, given as the number
\* of thousandths
Format3f(x) == RoundHalfEven(Mul[x, Num(1000)])

\* The text of TRAIN_INFO between the fields
TRAIN_INFO == <<"Tip trenirovki: ", "; Dlitelnost: ", " ch.; Distantsiya: ",
                " km; Sr. skorost: ", " km/ch; Potracheno kkal: ", ".">>

\* A str, as the sequence of its parts
Str(parts) == [cls |-> "str", parts |-> parts]

\* InfoMessage.get_message: TRAIN_INFO filled with the five fields
get_message(self) ==
    Str(<<TRAIN_INFO[1], self.training_type,
          TRAIN_INFO[2], Format3f(self.duration),
          TRAIN_INFO[3], Format3f(self.distance),
          TRAIN_INFO[4], Format3f(self.speed),
          TRAIN_INFO[5], Format3f(self.calories),
          TRAIN_INFO[6]>>)

-----------------------------------------------------------------------------
(* class Training and its subclasses *)

M_IN_KM == Num(1000)

MIN_IN_HOUR == Num(60)

\* LEN_STEP without the override of Swimming
LEN_STEP_base(self) == Rat[65, 100]

\* LEN_STEP, looked up through the class of self: Swimming overrides it
LEN_STEP(self) == IF self.cls = "Swimming" THEN Rat[138, 100] ELSE Rat[65, 100]

COEFF_CALORIE_SPEED_MULT == Num(18)

COEFF_CALORIE_SPEED_DIFF == Num(20)

COEFF_CALORIE_WEIGHT_MULT == Rat[35, 1000]

COEFF_CALORIE_SPEEDHEIGHT_MULT == Rat[29, 1000]

COEFF_CALORIE_SPEED_SUM == Rat[11, 10]

COEFF_CALORIE_SPEEDWEIGHT_MULT == Num(2)

Training_init(cls, action, duration, weight) ==
    [cls |-> cls, action |-> action, duration_hour |-> duration, weight_kg |-> weight]

Running_init(action, duration, weight) ==
    Training_init("Running", action, duration, weight)

SportsWalking_init(action, duration, weight, height) ==
    Training_init("SportsWalking", action, duration, weight) @@ [height_sm |-> height]

\* A Swimming.__init__ that stores its last two arguments the wrong way round
Swimming_init_swapped(action, duration, weight, length_pool, count_pool) ==
    Training_init("Swimming", action, duration, weight)
        @@ [length_pool_m |-> count_pool, count_pool |-> length_pool]

Swimming_init(action, duration, weight, length_pool, count_pool) ==
    Training_init("Swimming", action, duration, weight)
        @@ [length_pool_m |-> length_pool, count_pool |-> count_pool]

\* Training.get_distance
get_distance(self) ==
    Return(Quot[Mul[self.action, LEN_STEP(self)], M_IN_KM])

Training_get_mean_speed(self) ==
    Then(get_distance(self), LAMBDA distance : TrueDiv(distance, self.duration_hour))

Swimming_get_mean_speed(self) ==
    TrueDiv(Quot[Mul[self.length_pool_m, self.count_pool], M_IN_KM], self.duration_hour)

\* get_mean_speed, dispatched on the class of self
get_mean_speed(self) ==
    IF self.cls = "Swimming" THEN Swimming_get_mean_speed(self)
                             ELSE Training_get_mean_speed(self)

\* A Running.get_spent_calories that adds the shift instead of subtracting it
Running_get_spent_calories_added(self) ==
    Then(get_mean_speed(self), LAMBDA speed :
        Return(Mul[Mul[Quot[Mul[Add[Mul[COEFF_CALORIE_SPEED_MULT, speed],
                                    COEFF_CALORIE_SPEED_DIFF],
                                self.weight_kg],
                            M_IN_KM],
                       self.duration_hour],
                   MIN_IN_HOUR]))

Running_get_spent_calories(self) ==
    Then(get_mean_speed(self), LAMBDA speed :
        Return(Mul[Mul[Quot[Mul[Sub[Mul[COEFF_CALORIE_SPEED_MULT, speed],
                                    COEFF_CALORIE_SPEED_DIFF],
                                self.weight_kg],
                            M_IN_KM],
                       self.duration_hour],
                   MIN_IN_HOUR]))

\* A SportsWalking.get_spent_calories with / where the source has //
SportsWalking_get_spent_calories_truediv(self) ==
    Then(get_mean_speed(self), LAMBDA speed :
    Then(TrueDiv(Mul[speed, speed], self.height_sm), LAMBDA quotient :
        Return(Mul[Mul[Add[Mul[COEFF_CALORIE_WEIGHT_MULT, self.weight_kg],
                           Mul[Mul[quotient, COEFF_CALORIE_SPEEDHEIGHT_MULT],
                               self.weight_kg]],
                       self.duration_hour],
                   MIN_IN_HOUR])))

SportsWalking_get_spent_calories(self) ==
    Then(get_mean_speed(self), LAMBDA speed :
    Then(FloorDiv(Mul[speed, speed], self.height_sm), LAMBDA quotient :
        Return(Mul[Mul[Add[Mul[COEFF_CALORIE_WEIGHT_MULT, self.weight_kg],
                           Mul[Mul[quotient, COEFF_CALORIE_SPEEDHEIGHT_MULT],
                               self.weight_kg]],
                       self.duration_hour],
                   MIN_IN_HOUR])))

\* A Swimming.get_spent_calories that multiplies by the duration, as the other
\* two formulas do
Swimming_get_spent_calories_timed(self) ==
    Then(get_mean_speed(self), LAMBDA speed :
        Return(Mul[Mul[Mul[Add[speed, COEFF_CALORIE_SPEED_SUM],
                           COEFF_CALORIE_SPEEDWEIGHT_MULT],
                       self.weight_kg],
                   self.duration_hour]))

Swimming_get_spent_calories(self) ==
    Then(get_mean_speed(self), LAMBDA speed :
        Return(Mul[Mul[Add[speed, COEFF_CALORIE_SPEED_SUM],
                       COEFF_CALORIE_SPEEDWEIGHT_MULT],
                   self.weight_kg]))

\* get_spent_calories, dispatched on the class of self
get_spent_calories(self) ==
    CASE self.cls = "Running" -> Running_get_spent_calories(self)
      [] self.cls = "SportsWalking" -> SportsWalking_get_spent_calories(self)
      [] self.cls = "Swimming" -> Swimming_get_spent_calories(self)
      [] OTHER -> Raise("NotImplementedError")

\* Training.show_training_info: the arguments are evaluated left to right
show_training_info(self) ==
    Then(get_distance(self), LAMBDA distance :
    Then(get_mean_speed(self), LAMBDA speed :
    Then(get_spent_calories(self), LAMBDA calories :
        Return(InfoMessage(self.cls, self.duration_hour, distance, speed, calories)))))

-----------------------------------------------------------------------------
(* read_package and main *)

\* The keys of type_of_activity, in the order of the dict literal
type_of_activity_keys == <<"SWM", "RUN", "WLK">>

type_of_activity == [SWM |-> "Swimming", RUN |-> "Running", WLK |-> "SportsWalking"]

\* str(list(type_of_activity)), as the tokens of the text
StrList(keys) == <<"[">> \o keys \o <<"]">>

\* A read_package without its check: the dict lookup raises KeyError
MissingKey(workout_type) == Raise("KeyError")

\* The ValueError of read_package: its message, as the tokens of the f-string
UnknownWorkoutType(workout_type) ==
    [exc |-> "ValueError",
     message |-> <<"ValueError: ", "Neizvestnyi tip trenirovki... ",
                   "Dopustimye znacheniya: ">> \o StrList(type_of_activity_keys)]

\* cls(*data): the arguments are bound by position; a list of another length
\* than the constructor's parameters is a TypeError
Construct(cls, data) ==
    CASE cls = "Running" ->
            IF Len(data) = 3 THEN Return(Running_init(data[1], data[2], data[3]))
                             ELSE Raise("TypeError")
      [] cls = "SportsWalking" ->
            IF Len(data) = 4
            THEN Return(SportsWalking_init(data[1], data[2], data[3], data[4]))
            ELSE Raise("TypeError")
      [] cls = "Swimming" ->
            IF Len(data) = 5
            THEN Return(Swimming_init(data[1], data[2], data[3], data[4], data[5]))
            ELSE Raise("TypeError")

read_package(workout_type, data) ==
    IF workout_type \notin DOMAIN type_of_activity
    THEN UnknownWorkoutType(workout_type)
    ELSE Construct(type_of_activity[workout_type], data)

\* main(training) with `out` printed before it.  It returns None; the model's
\* value is the InfoMessage it made and the output after its print.
main(t, out) ==
    Then(show_training_info(t), LAMBDA i :
        Return([info |-> i, out |-> Append(out, get_message(i))]))

\* The list of the __main__ block
packages ==
    << <<"SWM", <<Num(720), Num(1), Num(80), Num(25), Num(40)>> >>,
       <<"RUN", <<Num(15000), Num(1), Num(75)>> >>,
       <<"WLK", <<Num(9000), Num(1), Num(75), Num(180)>> >> >>

-----------------------------------------------------------------------------
(* Inputs of a caller that imports the module *)

WorkoutTypes == {"SWM", "RUN", "WLK", "XYZ"}

Actions == {Num(720), Num(9000), Num(15000)}

Durations == {Num(0), Rat[1, 2], Num(1)}

Weights == {Num(75), Num(80)}

Heights == {Num(0), Num(180)}

PoolLengths == {Num(25), Num(50)}

PoolCounts == {Num(40)}

DataLists ==
    {<<a, d, w>> : a \in Actions, d \in Durations, w \in Weights}
    \cup {<<a, d, w, h>> : a \in Actions, d \in Durations, w \in Weights, h \in Heights}
    \cup UNION {{<<a, d, w, l, c>> : a \in Actions, d \in Durations, w \in Weights} :
                    <<l, c>> \in PoolLengths \X PoolCounts}

-----------------------------------------------------------------------------
(* The state machine *)

Init ==
    /\ name \in {"__main__", "homework"}
    /\ pc = IF name = "__main__" THEN "for" ELSE "imported"
    /\ idx = 1
    /\ package = None
    /\ training = None
    /\ info = None
    /\ ret = None
    /\ stdout = <<>>
    /\ shown = <<>>
    /\ history = <<>>

(* The script: for workout_type, data in packages *)

\* training = read_package(workout_type, data)
ScriptReadPackage ==
    /\ name = "__main__" /\ pc = "for" /\ idx <= Len(packages)
    /\ \E r \in {read_package(packages[idx][1], packages[idx][2])} :
           /\ package' = [workout_type |-> packages[idx][1], data |-> packages[idx][2]]
           /\ ret' = r
           /\ training' = IF Returned(r) THEN r.val ELSE training
           /\ shown' = IF Returned(r) THEN <<>> ELSE shown
           /\ pc' = IF Returned(r) THEN "main" ELSE "raised"
    /\ history' = Append(history, "read_package")
    /\ UNCHANGED <<name, idx, info, stdout>>

\* A main(training) that makes the report and does not print it
ScriptMain_silent ==
    /\ name = "__main__" /\ pc = "main"
    /\ \E m \in {main(training, stdout)} :
           /\ ret' = IF Returned(m) THEN Return(None) ELSE m
           /\ shown' = IF Returned(m) THEN Append(shown, m.val.info) ELSE shown
           /\ pc' = IF Returned(m) THEN "for" ELSE "raised"
           /\ idx' = IF Returned(m) THEN idx + 1 ELSE idx
    /\ history' = Append(history, "main")
    /\ UNCHANGED <<name, package, training, info, stdout>>

\* main(training)
ScriptMain ==
    /\ name = "__main__" /\ pc = "main"
    /\ \E m \in {main(training, stdout)} :
           /\ ret' = IF Returned(m) THEN Return(None) ELSE m
           /\ stdout' = IF Returned(m) THEN m.val.out ELSE stdout
           /\ shown' = IF Returned(m) THEN Append(shown, m.val.info) ELSE shown
           /\ pc' = IF Returned(m) THEN "for" ELSE "raised"
           /\ idx' = IF Returned(m) THEN idx + 1 ELSE idx
    /\ history' = Append(history, "main")
    /\ UNCHANGED <<name, package, training, info>>

\* the list is exhausted
ScriptExit ==
    /\ name = "__main__" /\ pc = "for" /\ idx > Len(packages)
    /\ pc' = "done"
    /\ UNCHANGED <<name, idx, package, training, info, ret, stdout, shown, history>>

(* A caller that imported the module *)

\* The caller reads one package and then works with the object it got
CallReadPackage(workout_type, data) ==
    /\ name = "homework" /\ Len(history) < MaxCalls /\ training = None
    /\ \E r \in {read_package(workout_type, data)} :
           /\ package' = [workout_type |-> workout_type, data |-> data]
           /\ ret' = r
           /\ training' = IF Returned(r) THEN r.val ELSE None
           /\ shown' = <<>>
    /\ history' = Append(history, "read_package")
    /\ UNCHANGED <<name, pc, idx, info, stdout>>

\* A get_distance that resets the counter it has read
CallGetDistance_resetting ==
    /\ name = "homework" /\ Len(history) < MaxCalls /\ training # None
    /\ ret' = get_distance(training)
    /\ training' = [training EXCEPT !.action = Num(0)]
    /\ history' = Append(history, "get_distance")
    /\ UNCHANGED <<name, pc, idx, package, info, stdout, shown>>

CallGetDistance ==
    /\ name = "homework" /\ Len(history) < MaxCalls /\ training # None
    /\ ret' = get_distance(training)
    /\ history' = Append(history, "get_distance")
    /\ UNCHANGED <<name, pc, idx, package, training, info, stdout, shown>>

CallGetMeanSpeed ==
    /\ name = "homework" /\ Len(history) < MaxCalls /\ training # None
    /\ ret' = get_mean_speed(training)
    /\ history' = Append(history, "get_mean_speed")
    /\ UNCHANGED <<name, pc, idx, package, training, info, stdout, shown>>

\* A get_spent_calories that leaves the duration in minutes in self
CallGetSpentCalories_minutes ==
    /\ name = "homework" /\ Len(history) < MaxCalls /\ training # None
    /\ ret' = get_spent_calories(training)
    /\ training' = [training EXCEPT !.duration_hour = MIN_IN_HOUR]
    /\ history' = Append(history, "get_spent_calories")
    /\ UNCHANGED <<name, pc, idx, package, info, stdout, shown>>

CallGetSpentCalories ==
    /\ name = "homework" /\ Len(history) < MaxCalls /\ training # None
    /\ ret' = get_spent_calories(training)
    /\ history' = Append(history, "get_spent_calories")
    /\ UNCHANGED <<name, pc, idx, package, training, info, stdout, shown>>

CallShowTrainingInfo ==
    /\ name = "homework" /\ Len(history) < MaxCalls /\ training # None
    /\ \E r \in {show_training_info(training)} :
           /\ ret' = r
           /\ info' = IF Returned(r) THEN r.val ELSE info
           /\ shown' = IF Returned(r) THEN Append(shown, r.val) ELSE shown
    /\ history' = Append(history, "show_training_info")
    /\ UNCHANGED <<name, pc, idx, package, training, stdout>>

CallGetMessage ==
    /\ name = "homework" /\ Len(history) < MaxCalls /\ info # None
    /\ ret' = Return(get_message(info))
    /\ history' = Append(history, "get_message")
    /\ UNCHANGED <<name, pc, idx, package, training, info, stdout, shown>>

CallMain ==
    /\ name = "homework" /\ Len(history) < MaxCalls /\ training # None
    /\ \E m \in {main(training, stdout)} :
           /\ ret' = IF Returned(m) THEN Return(None) ELSE m
           /\ stdout' = IF Returned(m) THEN m.val.out ELSE stdout
           /\ shown' = IF Returned(m) THEN Append(shown, m.val.info) ELSE shown
    /\ history' = Append(history, "main")
    /\ UNCHANGED <<name, pc, idx, package, training, info>>

ScriptStep == ScriptReadPackage \/ ScriptMain \/ ScriptExit

Next ==
    \/ ScriptReadPackage
    \/ ScriptMain
    \/ ScriptExit
    \/ \E workout_type \in WorkoutTypes, data \in DataLists :
            CallReadPackage(workout_type, data)
    \/ CallGetDistance
    \/ CallGetMeanSpeed
    \/ CallGetSpentCalories
    \/ CallShowTrainingInfo
    \/ CallGetMessage
    \/ CallMain

\* The name of the latest call
last == IF history = <<>> THEN "" ELSE history[Len(history)]

Spec == Init /\ [][Next]_vars

\* The interpreter runs the script's statements one after the other
FairSpec == Spec /\ WF_vars(ScriptStep)

-----------------------------------------------------------------------------
(* The claims *)

Range(s) == {s[k] : k \in DOMAIN s}

AllowedCodes == {"SWM", "RUN", "WLK"}

\* The latest call was read_package with a code outside the allowed set
UnknownCodeRead ==
    last = "read_package" /\ package.workout_type \notin AllowedCodes

\* C1, as stated: for every workout code outside {SWM, RUN, WLK} read_package
\* fails with the unknown-workout-code error, constructs no workout, and the
\* error carries both the code that was received and the allowed set.
C1_ErrorCarriesCodeAndAllowedSet ==
    UnknownCodeRead =>
        /\ ret.exc = "ValueError"
        /\ training = None
        /\ package.workout_type \in Range(ret.message)
        /\ AllowedCodes \subseteq Range(ret.message)

\* C1, amended: for every workout code outside {SWM, RUN, WLK} read_package
\* fails with the unknown-workout-code error (a ValueError) and constructs no
\* workout; the error's message lists the allowed codes SWM, RUN, WLK, and the
\* code that was received is not put into it.
C1_ErrorCarriesAllowedSetOnly ==
    UnknownCodeRead =>
        /\ ret.exc = "ValueError"
        /\ training = None
        /\ AllowedCodes \subseteq Range(ret.message)
        /\ package.workout_type \notin Range(ret.message)

C1_Witness ==
    /\ UnknownCodeRead
    /\ package.workout_type = "XYZ"
    /\ ret.exc = "ValueError"

\* The latest call was read_package with an allowed code and as many arguments
\* as the constructor of its variant takes
WellFormedRead ==
    /\ last = "read_package"
    /\ \/ package.workout_type = "RUN" /\ Len(package.data) = 3
       \/ package.workout_type = "WLK" /\ Len(package.data) = 4
       \/ package.workout_type = "SWM" /\ Len(package.data) = 5

\* C2: for every code in {SWM, RUN, WLK} and every argument list of the right
\* length read_package returns the variant the mapping names (SWM -> Swimming,
\* RUN -> Running, WLK -> SportsWalking) with the arguments bound by position:
\* (action, duration, weight), then height for SportsWalking, then
\* (length_pool, count_pool) for Swimming; nothing is reordered, dropped or
\* defaulted.
C2_ReadPackageBindsByPosition ==
    WellFormedRead =>
        /\ Returned(ret)
        /\ training = ret.val
        /\ training.action = package.data[1]
        /\ training.duration_hour = package.data[2]
        /\ training.weight_kg = package.data[3]
        /\ package.workout_type = "RUN" =>
              /\ training.cls = "Running"
              /\ DOMAIN training = {"cls", "action", "duration_hour", "weight_kg"}
        /\ package.workout_type = "WLK" =>
              /\ training.cls = "SportsWalking"
              /\ training.height_sm = package.data[4]
              /\ DOMAIN training =
                    {"cls", "action", "duration_hour", "weight_kg", "height_sm"}
        /\ package.workout_type = "SWM" =>
              /\ training.cls = "Swimming"
              /\ training.length_pool_m = package.data[4]
              /\ training.count_pool = package.data[5]
              /\ DOMAIN training = {"cls", "action", "duration_hour", "weight_kg",
                                    "length_pool_m", "count_pool"}

C2_Witness ==
    /\ WellFormedRead
    /\ package.workout_type = "SWM"
    /\ package.data = <<Num(720), Rat[1, 2], Num(80), Num(50), Num(40)>>
    /\ training.cls = "Swimming"

-----------------------------------------------------------------------------
(* Claims about the formulas.  The reports are those show_training_info has
   returned for the current workout, from a direct call or inside main. *)

LessEq(x, y) == ~Less(y, x)

Positive(x) == Less(Num(0), x)

\* |x - target| <= 0.5% of target
WithinHalfPercent(x, target) ==
    /\ LessEq(Sub[x, target], Mul[target, Rat[5, 1000]])
    /\ LessEq(Sub[target, x], Mul[target, Rat[5, 1000]])

\* action * 0.65 / 1000, the distance in km of `action` steps
StepsKm(action) == Quot[Mul[action, Rat[65, 100]], Num(1000)]

\* action * 1.38 / 1000, the distance in km of `action` strokes
StrokesKm(action) == Quot[Mul[action, Rat[138, 100]], Num(1000)]

\* (18 * speed - 20) * weight / 1000 * hours * 60
RunningKcal(speed, weight, hours) ==
    Mul[Mul[Quot[Mul[Sub[Mul[Num(18), speed], Num(20)], weight], Num(1000)], hours],
        Num(60)]

\* (0.035 * weight + floor(speed^2 / height) * 0.029 * weight) * hours * 60
WalkingKcal(speed, weight, height, hours) ==
    Mul[Mul[Add[Mul[Rat[35, 1000], weight],
                Mul[Mul[Num(Floor(Quot[Mul[speed, speed], height])), Rat[29, 1000]],
                    weight]],
            hours],
        Num(60)]

\* (speed + 1.1) * 2 * weight
SwimmingKcal(speed, weight) == Mul[Mul[Add[speed, Rat[11, 10]], Num(2)], weight]

RunningSample ==
    [cls |-> "Running", action |-> Num(15000), duration_hour |-> Num(1),
     weight_kg |-> Num(75)]

WalkingSample ==
    [cls |-> "SportsWalking", action |-> Num(9000), duration_hour |-> Num(1),
     weight_kg |-> Num(75), height_sm |-> Num(180)]

SwimmingSample ==
    [cls |-> "Swimming", action |-> Num(720), duration_hour |-> Num(1),
     weight_kg |-> Num(80), length_pool_m |-> Num(25), count_pool |-> Num(40)]

\* Every report of a Running workout follows the running formulas
RunningFormulas ==
    training.cls = "Running" =>
        \A k \in DOMAIN shown :
            /\ shown[k].training_type = "Running"
            /\ shown[k].duration = training.duration_hour
            /\ shown[k].distance = StepsKm(training.action)
            /\ shown[k].speed = Quot[StepsKm(training.action), training.duration_hour]
            /\ shown[k].calories =
                  RunningKcal(shown[k].speed, training.weight_kg, training.duration_hour)

\* C3, as stated: for Running(action=15000, duration=1, weight=75) the report
\* has distance 9.75 km, mean speed 9.75 km/h and calories within 0.5% of
\* 1052.0, the calories being (18*meanSpeed - 20) * weight / 1000 * hours * 60
\* with meanSpeed = action*0.65/1000/hours.
C3_RunningSampleKcal1052 ==
    /\ RunningFormulas
    /\ training = RunningSample =>
          \A k \in DOMAIN shown :
              /\ shown[k].distance = Rat[975, 100]
              /\ shown[k].speed = Rat[975, 100]
              /\ WithinHalfPercent(shown[k].calories, Num(1052))

\* C3, amended: for Running(action=15000, duration=1, weight=75) the report
\* has distance 9.75 km, mean speed 9.75 km/h and calories 699.75, the calories
\* being (18*meanSpeed - 20) * weight / 1000 * hours * 60 with
\* meanSpeed = action*0.65/1000/hours.
C3_RunningSampleKcal699 ==
    /\ RunningFormulas
    /\ training = RunningSample =>
          \A k \in DOMAIN shown :
              /\ shown[k].distance = Rat[975, 100]
              /\ shown[k].speed = Rat[975, 100]
              /\ shown[k].calories = Rat[69975, 100]

C3_Witness ==
    /\ training = RunningSample
    /\ shown # <<>>
    /\ shown[1].calories = Rat[69975, 100]

\* C4: for every SportsWalking sample with positive duration and positive
\* height the calories are
\* (0.035*weight + floor(meanSpeed^2 / height) * 0.029*weight) * hours * 60,
\* the quotient being floor division; distance and mean speed are those of
\* Running for the same action and duration.  SportsWalking(9000, 1, 75, 180)
\* has distance 5.85 km and speed 5.85 km/h, and whenever meanSpeed^2 < height
\* the speed term adds nothing to the calories.
C4_WalkingFloorDivision ==
    (/\ training.cls = "SportsWalking"
     /\ Positive(training.duration_hour)
     /\ Positive(training.height_sm)) =>
        /\ last \in {"show_training_info", "main", "get_spent_calories"} => Returned(ret)
        /\ last = "get_spent_calories" =>
              ret.val = WalkingKcal(Quot[StepsKm(training.action), training.duration_hour],
                                    training.weight_kg, training.height_sm,
                                    training.duration_hour)
        /\ \A k \in DOMAIN shown :
              /\ shown[k].distance = StepsKm(training.action)
              /\ shown[k].speed = Quot[StepsKm(training.action), training.duration_hour]
              /\ shown[k].calories =
                    WalkingKcal(shown[k].speed, training.weight_kg, training.height_sm,
                                training.duration_hour)
              /\ Less(Mul[shown[k].speed, shown[k].speed], training.height_sm) =>
                    shown[k].calories =
                        Mul[Mul[Mul[Rat[35, 1000], training.weight_kg],
                                training.duration_hour], Num(60)]
              /\ training = WalkingSample =>
                    /\ shown[k].distance = Rat[585, 100]
                    /\ shown[k].speed = Rat[585, 100]

\* A walk fast enough for the floored quotient to be 2 (380.25 // 180), where
\* real division would give 2.1125
C4_Witness ==
    /\ training.cls = "SportsWalking"
    /\ training.action = Num(15000)
    /\ training.duration_hour = Rat[1, 2]
    /\ training.height_sm = Num(180)
    /\ shown # <<>>
    /\ shown[1].speed = Rat[195, 10]
    /\ last = "get_spent_calories"
    /\ Returned(ret)
    /\ ret.val = shown[1].calories

\* C5: for every Swimming sample with positive duration the mean speed is
\* length_pool * count_pool / 1000 / hours and the calories are
\* (meanSpeed + 1.1) * 2 * weight, not multiplied by the duration;
\* Swimming(720, 1, 80, 25, 40) has speed exactly 1.0 km/h and calories
\* exactly 336.0.
C5_SwimmingFormulas ==
    (training.cls = "Swimming" /\ Positive(training.duration_hour)) =>
        /\ last \in {"show_training_info", "main", "get_mean_speed",
                     "get_spent_calories"} => Returned(ret)
        /\ last = "get_mean_speed" =>
              ret.val = Quot[Quot[Mul[training.length_pool_m, training.count_pool],
                                  Num(1000)],
                             training.duration_hour]
        /\ \A k \in DOMAIN shown :
              /\ shown[k].speed =
                    Quot[Quot[Mul[training.length_pool_m, training.count_pool],
                              Num(1000)],
                         training.duration_hour]
              /\ shown[k].calories = SwimmingKcal(shown[k].speed, training.weight_kg)
              /\ training = SwimmingSample =>
                    /\ shown[k].speed = Num(1)
                    /\ shown[k].calories = Num(336)

\* A swim of half an hour, where multiplying by the duration would show
C5_Witness ==
    /\ training.cls = "Swimming"
    /\ training.duration_hour = Rat[1, 2]
    /\ shown # <<>>
    /\ shown[1].calories = SwimmingKcal(shown[1].speed, training.weight_kg)
    /\ shown[1].calories # Mul[SwimmingKcal(shown[1].speed, training.weight_kg),
                               training.duration_hour]

-----------------------------------------------------------------------------
(* Claims about construction, purity and the script *)

\* C6: a sample whose duration is zero is rejected at construction:
\* read_package with duration 0 fails with a construction error and yields no
\* workout object, for each of the three variants, so that no later distance,
\* speed or calorie call can divide by zero.
C6_ZeroDurationRejected ==
    /\ (WellFormedRead /\ package.data[2] = Num(0)) =>
            ~Returned(ret) /\ training = None
    /\ history # <<>> => ret.exc # "ZeroDivisionError"

\* C7: calling show_training_info again on the same workout, in any
\* interleaving with get_distance, get_mean_speed and get_spent_calories,
\* yields a report equal in all five fields; no call's result depends on the
\* calls that preceded it.
C7_ReportsIdempotent ==
    /\ \A j, k \in DOMAIN shown : shown[j] = shown[k]
    /\ (shown # <<>> /\ Returned(ret)) =>
          /\ last = "show_training_info" => ret.val = shown[1]
          /\ last = "get_distance" => ret.val = shown[1].distance
          /\ last = "get_mean_speed" => ret.val = shown[1].speed
          /\ last = "get_spent_calories" => ret.val = shown[1].calories

\* Two reports of one workout with another call between them
C7_Witness ==
    /\ Len(shown) = 2
    /\ Len(history) = 4
    /\ history[2] = "show_training_info"
    /\ history[3] \in {"get_distance", "get_mean_speed", "get_spent_calories"}
    /\ history[4] = "show_training_info"

Methods ==
    {"get_distance", "get_mean_speed", "get_spent_calories", "show_training_info",
     "main", "get_message"}

\* C9: a workout is immutable once constructed: get_distance, get_mean_speed,
\* get_spent_calories, show_training_info and main leave every field of the
\* workout unchanged, and get_message leaves every field of the report
\* unchanged, for all three variants.
C9_MethodsLeaveFieldsUnchanged ==
    [][(history' # history /\ last' \in Methods) =>
            /\ training' = training
            /\ last' = "get_message" => info' = info]_vars

\* get_message has formatted the report of a workout that was read before
C9_Witness ==
    /\ last = "get_message"
    /\ training.cls = "SportsWalking"
    /\ info # None
    /\ shown # <<>>
    /\ info = shown[1]

TypeLabels == <<"Swimming", "Running", "SportsWalking">>

\* The script has printed a line for each of the entries before entry idx and
\* for no other, in the order of the list
C8_OneLinePerEntryInOrder ==
    name = "__main__" =>
        /\ pc \in {"for", "main", "done"}
        /\ Len(stdout) = idx - 1
        /\ \A k \in DOMAIN stdout : stdout[k].parts[2] = TypeLabels[k]
        /\ pc = "main" => training.cls = TypeLabels[idx]
        /\ pc = "done" => Len(stdout) = 3 /\ ~ENABLED ScriptStep

\* C8: the program entry processes the list [SWM, RUN, WLK] in list order and
\* prints one line per entry: each entry is dispatched, computed and printed
\* before the next one is dispatched, so the output is three lines whose type
\* labels are Swimming, Running, SportsWalking in that order, and the run
\* terminates after the third line.
C8_ScriptPrintsThreeLinesAndEnds ==
    /\ []C8_OneLinePerEntryInOrder
    /\ <>(name = "__main__" => pc = "done")

C8_Witness ==
    /\ name = "__main__"
    /\ pc = "done"
    /\ Len(stdout) = 3
    /\ stdout[3].parts[2] = "SportsWalking"

====
